---- MODULE Spec2Model ----
(***************************************************************************)
(* Two-player snake server (src/index.ts): the room registry, the room     *)
(* lifecycle, the socket handlers and the per-tick simulation step.        *)
(* Node runs every handler and every timer callback to completion, so each *)
(* handler is one atomic action.                                           *)
(***************************************************************************)
EXTENDS Integers, Sequences, FiniteSets, TLC

\* ------------------------------------------------------------- constants
CANVAS_WIDTH == 800
CANVAS_HEIGHT == 600
BLOCK_SIZE == 20
GAME_SPEED == 15

\* ---------------------------------------------------------------- bounds
\* Connections that may ever be opened.
NumSockets == 2
\* Rooms that may ever be created (randomUUID never repeats an id).
MaxRooms == 2
\* Math.random() is modelled as k / RandDenom for k in 0 .. RandDenom - 1.
RandDenom == 2
\* Server specification: advanced steps' worth of time that passes, and
\* direction requests handled.
MaxSteps == 1
MaxDirReqs == 1
\* Steering specification: the same two limits.
MaxSteerSteps == 2
MaxSteerReqs == 2
\* Match specification: the same two limits.
MaxMatchSteps == 11
MaxMatchReqs == 2

Sockets == 1 .. NumSockets
RoomIds == 1 .. MaxRooms
RandomDraws == 0 .. (RandDenom - 1)

\* ------------------------------------------------------------ directions
Direction ==
  [UP |-> [x |-> 0, y |-> -1],
   DOWN |-> [x |-> 0, y |-> 1],
   LEFT |-> [x |-> -1, y |-> 0],
   RIGHT |-> [x |-> 1, y |-> 0]]

UnitDirections == {Direction.UP, Direction.DOWN, Direction.LEFT, Direction.RIGHT}

\* Payloads a client may send with a direction request: the four unit
\* deltas and integer pairs that are none of them.
DirectionPayloads ==
  UnitDirections \cup
    {[x |-> 1, y |-> 1], [x |-> -51, y |-> -1]}

\* ------------------------------------------------------------ arithmetic
\* JavaScript's % : the result takes the sign of the dividend.
JsRem(a, n) == IF a >= 0 THEN a % n ELSE -((-a) % n)

\* Math.floor(Math.random() * n) for Math.random() = k / RandDenom.
FloorRandomTimes(k, n) == (k * n) \div RandDenom

\* Mutant of RateLimited: the limit is the 60 Hz of the broadcast timer.
RateLimitedAtTimerRate(now, lastUpdate) == (now - lastUpdate) * 60 < 1000

\* now - lastUpdate < 1000 / GAME_SPEED, over the integers Date.now() returns.
RateLimited(now, lastUpdate) == (now - lastUpdate) * GAME_SPEED < 1000

\* -------------------------------------------------------------- GameRoom
generateFood(rx, ry) ==
  [position |->
     [x |-> FloorRandomTimes(rx, CANVAS_WIDTH \div BLOCK_SIZE) * BLOCK_SIZE,
      y |-> FloorRandomTimes(ry, CANVAS_HEIGHT \div BLOCK_SIZE) * BLOCK_SIZE],
   color |-> "RED"]

\* Every food the spawner can produce.
FoodDraws == {generateFood(rx, ry) : rx \in RandomDraws, ry \in RandomDraws}

\* Mutant of initializeGameState: the second snake spawns one block further
\* right, an odd number of blocks from the first.
initializeGameStateOddGap(food, now) ==
  [snake1 |->
     [positions |-> <<[x |-> CANVAS_WIDTH \div 4, y |-> CANVAS_HEIGHT \div 2]>>,
      direction |-> Direction.RIGHT,
      color |-> "GREEN",
      score |-> 0,
      speed |-> GAME_SPEED],
   snake2 |->
     [positions |->
        <<[x |-> (CANVAS_WIDTH * 3) \div 4 + BLOCK_SIZE,
           y |-> CANVAS_HEIGHT \div 2]>>,
      direction |-> Direction.LEFT,
      color |-> "BLUE",
      score |-> 0,
      speed |-> GAME_SPEED],
   food |-> food,
   lastUpdate |-> now]

initializeGameState(food, now) ==
  [snake1 |->
     [positions |-> <<[x |-> CANVAS_WIDTH \div 4, y |-> CANVAS_HEIGHT \div 2]>>,
      direction |-> Direction.RIGHT,
      color |-> "GREEN",
      score |-> 0,
      speed |-> GAME_SPEED],
   snake2 |->
     [positions |->
        <<[x |-> (CANVAS_WIDTH * 3) \div 4, y |-> CANVAS_HEIGHT \div 2]>>,
      direction |-> Direction.LEFT,
      color |-> "BLUE",
      score |-> 0,
      speed |-> GAME_SPEED],
   food |-> food,
   lastUpdate |-> now]

\* new GameRoom(): no players, no timer, a fresh Match State.
NewGameRoom(food, now) ==
  [players |-> <<>>,
   gameState |-> initializeGameState(food, now),
   gameLoop |-> FALSE]

\* The head after one move: each axis wraps with JavaScript's %.
newHead(snake) ==
  LET head == snake.positions[1]
  IN [x |-> JsRem(head.x + snake.direction.x * BLOCK_SIZE + CANVAS_WIDTH,
                  CANVAS_WIDTH),
      y |-> JsRem(head.y + snake.direction.y * BLOCK_SIZE + CANVAS_HEIGHT,
                  CANVAS_HEIGHT)]

\* newHead.x === food.position.x && newHead.y === food.position.y
eatsFood(snake, food) ==
  /\ newHead(snake).x = food.position.x
  /\ newHead(snake).y = food.position.y

\* Mutant of advanceSnake: the tail is popped on an eating step too.
advanceSnakeAlwaysPops(snake, food) ==
  IF eatsFood(snake, food)
    THEN [snake EXCEPT !.positions = <<newHead(snake)>> \o
                         SubSeq(@, 1, Len(@) - 1),
                       !.score = @ + 1]
    ELSE [snake EXCEPT !.positions = <<newHead(snake)>> \o
                         SubSeq(@, 1, Len(@) - 1)]

\* Mutant of advanceSnake: the tail is kept on the food but nothing is scored.
advanceSnakeGrowsUnscored(snake, food) ==
  LET grown == <<newHead(snake)>> \o snake.positions
  IN IF eatsFood(snake, food)
       THEN [snake EXCEPT !.positions = grown]
       ELSE [snake EXCEPT !.positions = SubSeq(grown, 1, Len(grown) - 1)]

\* One iteration of the forEach in update: unshift the new head, then
\* either score (the tail is kept) or pop the tail.
advanceSnake(snake, food) ==
  LET grown == <<newHead(snake)>> \o snake.positions
  IN IF eatsFood(snake, food)
       THEN [snake EXCEPT !.positions = grown, !.score = @ + 1]
       ELSE [snake EXCEPT !.positions = SubSeq(grown, 1, Len(grown) - 1)]

checkSelfCollision(snake) ==
  \E i \in 2 .. Len(snake.positions) :
    /\ snake.positions[i].x = snake.positions[1].x
    /\ snake.positions[i].y = snake.positions[1].y

checkSnakeCollision(snake1, snake2) ==
  LET head1 == snake1.positions[1]
      head2 == snake2.positions[1]
  IN \/ \E i \in 1 .. Len(snake2.positions) :
          snake2.positions[i].x = head1.x /\ snake2.positions[i].y = head1.y
     \/ \E i \in 1 .. Len(snake1.positions) :
          snake1.positions[i].x = head2.x /\ snake1.positions[i].y = head2.y

\* Mutant of checkCollision: the check between the two snakes is missing.
checkCollisionSelfOnly(gameState) ==
  \/ checkSelfCollision(gameState.snake1)
  \/ checkSelfCollision(gameState.snake2)

checkCollision(gameState) ==
  \/ checkSelfCollision(gameState.snake1)
  \/ checkSelfCollision(gameState.snake2)
  \/ checkSnakeCollision(gameState.snake1, gameState.snake2)

\* The Match State after both snakes have moved, before the collision
\* check. Both eating checks read the food destructured at the top of
\* update; f1 and f2 are the foods generated if snake1 and snake2 eat.
moveSnakes(gameState, f1, f2) ==
  LET food == gameState.food
      afterFirst == IF eatsFood(gameState.snake1, food) THEN f1 ELSE food
      afterSecond ==
        IF eatsFood(gameState.snake2, food) THEN f2 ELSE afterFirst
  IN [gameState EXCEPT !.snake1 = advanceSnake(gameState.snake1, food),
                       !.snake2 = advanceSnake(gameState.snake2, food),
                       !.food = afterSecond]

\* GameRoom.update at Date.now() = now; f3 is the food resetGame generates.
update(gameState, now, f1, f2, f3) ==
  IF RateLimited(now, gameState.lastUpdate)
    THEN gameState
    ELSE LET moved == moveSnakes(gameState, f1, f2)
         IN IF checkCollision(moved)
              THEN initializeGameState(f3, now)
              ELSE [moved EXCEPT !.lastUpdate = now]

\* GameRoom.startGame: sets the interval timer unless one is set.
startGame(room) == IF room.gameLoop THEN room ELSE [room EXCEPT !.gameLoop = TRUE]

\* Mutant of stopGame: the timer is left running.
stopGameKeepsTimer(room) == room

\* GameRoom.stopGame: clears the interval timer if one is set.
stopGame(room) == IF room.gameLoop THEN [room EXCEPT !.gameLoop = FALSE] ELSE room

\* Array.prototype.indexOf: the 0-based index of the first match, else -1.
indexOf(players, s) ==
  IF \E i \in 1 .. Len(players) : players[i] = s
    THEN (CHOOSE i \in 1 .. Len(players) :
            /\ players[i] = s
            /\ \A j \in 1 .. (i - 1) : players[j] # s) - 1
    ELSE -1

\* players.splice(index, 1) for a 0-based index.
splice(players, index) ==
  SubSeq(players, 1, index) \o SubSeq(players, index + 2, Len(players))

\* Mutant of rejectsDirection: only a repeat of the current direction is
\* dropped, a reversal is let through.
rejectsOnlySameDirection(direction, currentDir) ==
  direction.x = currentDir.x /\ direction.y = currentDir.y

\* The direction handler's filter: true when the request is dropped.
rejectsDirection(direction, currentDir) ==
  \/ (direction.x = 0 /\ currentDir.x = 0)
  \/ (direction.y = 0 /\ currentDir.y = 0)
  \/ (direction.x = -currentDir.x /\ direction.y = -currentDir.y)

\* -------------------------------------------------------------- registry
\* new Map(): no rooms.
EmptyRegistry == [r \in {} |-> NewGameRoom(generateFood(0, 0), 0)]

\* rooms.set(id, room)
setRoom(registry, id, room) ==
  [r \in DOMAIN registry \cup {id} |-> IF r = id THEN room ELSE registry[r]]

\* rooms.delete(id)
deleteRoom(registry, id) == [r \in DOMAIN registry \ {id} |-> registry[r]]

\* The room the handlers' for-loop stops at: the first room, in the Map's
\* insertion order (the order of creation), that lists the socket.
roomsListing(registry, s) ==
  {r \in DOMAIN registry : indexOf(registry[r].players, s) # -1}

firstRoomListing(registry, s) ==
  CHOOSE r \in roomsListing(registry, s) :
    \A q \in roomsListing(registry, s) : r <= q

\* ----------------------------------------------------------------- state
VARIABLES
  sockets,    \* socket id -> "new" | "connected" | "disconnected"
  rooms,      \* the registry: room id -> GameRoom
  nextId,     \* the next id randomUUID hands out
  channels,   \* socket.io rooms: room id -> sockets that joined it
  clock,      \* Date.now()
  emitted,    \* what the last handler emitted
  dirReqs,    \* direction requests handled so far
  moved       \* history: room id -> the directions of its last advanced step

vars == <<sockets, rooms, nextId, channels, clock, emitted, dirReqs, moved>>

\* No step has been advanced since the Match State was (re)initialized.
NoMoves == [snake1 |-> [x |-> 0, y |-> 0], snake2 |-> [x |-> 0, y |-> 0]]

Init ==
  /\ sockets = [s \in Sockets |-> "new"]
  /\ rooms = EmptyRegistry
  /\ nextId = 1
  /\ channels = [r \in RoomIds |-> {}]
  /\ clock = 0
  /\ emitted = <<>>
  /\ dirReqs = 0
  /\ moved = [r \in RoomIds |-> NoMoves]

\* --------------------------------------------------------------- actions
\* io.on('connection'): a client connects; the handlers are registered.
Connect(s) ==
  /\ sockets[s] = "new"
  /\ sockets' = [sockets EXCEPT ![s] = "connected"]
  /\ emitted' = <<>>
  /\ UNCHANGED <<rooms, nextId, channels, clock, dirReqs, moved>>

\* Mutant of createRoom: the creator is not pushed onto the players.
createRoomWithoutCreator(registry, id, s, food, now) ==
  setRoom(registry, id, NewGameRoom(food, now))

\* The effect of socket.on('createRoom') on the registry: the new room is
\* registered and the creator is pushed onto its players.
createRoom(registry, id, s, food, now) ==
  setRoom(registry, id,
          [NewGameRoom(food, now) EXCEPT !.players = Append(@, s)])

\* socket.on('createRoom')
CreateRoom(s) ==
  /\ sockets[s] = "connected"
  /\ nextId <= MaxRooms
  /\ \E rx \in RandomDraws, ry \in RandomDraws :
       rooms' = createRoom(rooms, nextId, s, generateFood(rx, ry), clock)
  /\ channels' = [channels EXCEPT ![nextId] = @ \cup {s}]
  /\ emitted' = <<[event |-> "roomCreated", to |-> {s}, roomId |-> nextId]>>
  /\ nextId' = nextId + 1
  /\ UNCHANGED <<sockets, clock, dirReqs, moved>>

\* Mutant of roomIsFull: the limit is off by one.
roomIsFullOffByOne(room) == Len(room.players) > 2

\* room.players.length >= 2
roomIsFull(room) == Len(room.players) >= 2

\* socket.on('joinRoom')
JoinRoom(s, roomId) ==
  /\ sockets[s] = "connected"
  /\ IF roomId \notin DOMAIN rooms
       THEN /\ emitted' = <<[event |-> "error", to |-> {s},
                             message |-> "room does not exist"]>>
            /\ UNCHANGED <<rooms, channels>>
       ELSE IF roomIsFull(rooms[roomId])
         THEN /\ emitted' = <<[event |-> "error", to |-> {s},
                               message |-> "room is full"]>>
              /\ UNCHANGED <<rooms, channels>>
         ELSE /\ channels' = [channels EXCEPT ![roomId] = @ \cup {s}]
              /\ rooms' = [rooms EXCEPT ![roomId] =
                             startGame([@ EXCEPT !.players = Append(@, s)])]
              /\ emitted' = <<[event |-> "roomJoined", room |-> roomId,
                               to |-> channels'[roomId]]>>
  /\ UNCHANGED <<sockets, nextId, clock, dirReqs, moved>>

\* Mutant of direction: an accepted request turns both snakes of the room.
directionTurnsBothSnakes(registry, s, d) ==
  IF roomsListing(registry, s) = {}
    THEN registry
    ELSE LET r == firstRoomListing(registry, s)
             playerIndex == indexOf(registry[r].players, s)
             currentDir == IF playerIndex = 0
                             THEN registry[r].gameState.snake1.direction
                             ELSE registry[r].gameState.snake2.direction
         IN IF rejectsDirection(d, currentDir)
              THEN registry
              ELSE [registry EXCEPT ![r].gameState.snake1.direction = d,
                                    ![r].gameState.snake2.direction = d]

\* The effect of socket.on('direction') on the registry.
direction(registry, s, d) ==
  IF roomsListing(registry, s) = {}
    THEN registry
    ELSE LET r == firstRoomListing(registry, s)
             playerIndex == indexOf(registry[r].players, s)
             currentDir == IF playerIndex = 0
                             THEN registry[r].gameState.snake1.direction
                             ELSE registry[r].gameState.snake2.direction
         IN IF rejectsDirection(d, currentDir)
              THEN registry
              ELSE IF playerIndex = 0
                THEN [registry EXCEPT ![r].gameState.snake1.direction = d]
                ELSE [registry EXCEPT ![r].gameState.snake2.direction = d]

\* socket.on('direction') with a payload from the given set.
DirectionFrom(s, payloads, limit) ==
  /\ sockets[s] = "connected"
  /\ dirReqs < limit
  /\ \E d \in payloads : rooms' = direction(rooms, s, d)
  /\ dirReqs' = dirReqs + 1
  /\ emitted' = <<>>
  /\ UNCHANGED <<sockets, nextId, channels, clock, moved>>

DirectionReq(s) == DirectionFrom(s, DirectionPayloads, MaxDirReqs)

SteerReq(s) == DirectionFrom(s, DirectionPayloads, MaxSteerReqs)

MatchReq(s) == DirectionFrom(s, UnitDirections, MaxMatchReqs)

\* Mutant of disconnect: a room left empty stays in the registry.
disconnectKeepsEmptyRoom(registry, s) ==
  IF roomsListing(registry, s) = {}
    THEN registry
    ELSE LET r == firstRoomListing(registry, s)
             playerIndex == indexOf(registry[r].players, s)
         IN setRoom(registry, r,
                    stopGame([registry[r] EXCEPT
                                !.players = splice(@, playerIndex)]))

\* Mutant of disconnect: the leave also puts both snakes back on their spawn.
disconnectResetsMatch(registry, s) ==
  IF roomsListing(registry, s) = {}
    THEN registry
    ELSE LET r == firstRoomListing(registry, s)
             playerIndex == indexOf(registry[r].players, s)
             gs == registry[r].gameState
             room == stopGame([registry[r] EXCEPT
                                 !.players = splice(@, playerIndex),
                                 !.gameState =
                                   initializeGameState(gs.food, gs.lastUpdate)])
         IN IF Len(room.players) = 0
              THEN deleteRoom(registry, r)
              ELSE setRoom(registry, r, room)

\* Mutant of disconnect: the leave does not stop the tick loop.
disconnectLeavesLoopRunning(registry, s) ==
  IF roomsListing(registry, s) = {}
    THEN registry
    ELSE LET r == firstRoomListing(registry, s)
             playerIndex == indexOf(registry[r].players, s)
             room == [registry[r] EXCEPT !.players = splice(@, playerIndex)]
         IN IF Len(room.players) = 0
              THEN deleteRoom(registry, r)
              ELSE setRoom(registry, r, room)

\* The effect of socket.on('disconnect') on the registry.
disconnect(registry, s) ==
  IF roomsListing(registry, s) = {}
    THEN registry
    ELSE LET r == firstRoomListing(registry, s)
             playerIndex == indexOf(registry[r].players, s)
             room == stopGame([registry[r] EXCEPT
                                 !.players = splice(@, playerIndex)])
         IN IF Len(room.players) = 0
              THEN deleteRoom(registry, r)
              ELSE setRoom(registry, r, room)

\* The client goes away: socket.io takes the socket out of every channel
\* and then runs socket.on('disconnect').
Disconnect(s) ==
  /\ sockets[s] = "connected"
  /\ sockets' = [sockets EXCEPT ![s] = "disconnected"]
  /\ channels' = [r \in RoomIds |-> channels[r] \ {s}]
  /\ rooms' = disconnect(rooms, s)
  /\ moved' = [r \in RoomIds |->
                IF r \in DOMAIN rooms' THEN moved[r] ELSE NoMoves]
  /\ emitted' = <<>>
  /\ UNCHANGED <<nextId, clock, dirReqs>>

\* One firing of the interval timer startGame set for room r: update,
\* then the snapshot to the room's channel.
Tick(r) ==
  /\ r \in DOMAIN rooms
  /\ rooms[r].gameLoop
  /\ LET gs == rooms[r].gameState
         advancing == ~RateLimited(clock, gs.lastUpdate)
         draws1 == IF advancing /\ eatsFood(gs.snake1, gs.food)
                     THEN FoodDraws ELSE {gs.food}
         draws2 == IF advancing /\ eatsFood(gs.snake2, gs.food)
                     THEN FoodDraws ELSE {gs.food}
     IN \E f1 \in draws1, f2 \in draws2 :
          LET draws3 == IF advancing /\ checkCollision(moveSnakes(gs, f1, f2))
                          THEN FoodDraws ELSE {gs.food}
          IN \E f3 \in draws3 :
               rooms' = [rooms EXCEPT ![r].gameState =
                           update(gs, clock, f1, f2, f3)]
  /\ LET gs == rooms[r].gameState
     IN moved' =
          IF RateLimited(clock, gs.lastUpdate)
            THEN moved
            ELSE IF checkCollision(moveSnakes(gs, gs.food, gs.food))
              THEN [moved EXCEPT ![r] = NoMoves]
              ELSE [moved EXCEPT ![r] = [snake1 |-> gs.snake1.direction,
                                         snake2 |-> gs.snake2.direction]]
  /\ emitted' = <<[event |-> "gameState", room |-> r, to |-> channels[r],
                   gameState |-> rooms'[r].gameState]>>
  /\ UNCHANGED <<sockets, nextId, channels, clock, dirReqs>>

\* The shortest time between two advanced steps, in ms.
StepGap == 1000 \div GAME_SPEED + 1

\* The longest time that is still rate limited, and the shortest that is not.
Gaps == {StepGap - 1, StepGap}

\* Date.now() moves on by one of the gaps, up to a limit.
ElapseBy(gaps, limit) ==
  /\ \E d \in gaps : clock + d <= limit /\ clock' = clock + d
  /\ emitted' = <<>>
  /\ UNCHANGED <<sockets, rooms, nextId, channels, dirReqs, moved>>

Elapse == ElapseBy({StepGap}, MaxSteps * StepGap)

ElapseSteer == ElapseBy(Gaps, MaxSteerSteps * StepGap)

\* The interval timer fires every 1000 / 60 ms, well within one step gap:
\* a running room takes the step that is due before the next gap passes.
NoStepDue ==
  \A r \in DOMAIN rooms :
    rooms[r].gameLoop => RateLimited(clock, rooms[r].gameState.lastUpdate)

ElapseMatch == NoStepDue /\ ElapseBy({StepGap}, MaxMatchSteps * StepGap)

\* The server from its start.
Next ==
  \/ \E s \in Sockets : Connect(s)
  \/ \E s \in Sockets : CreateRoom(s)
  \/ \E s \in Sockets, roomId \in RoomIds : JoinRoom(s, roomId)
  \/ \E s \in Sockets : DirectionReq(s)
  \/ \E s \in Sockets : Disconnect(s)
  \/ \E r \in RoomIds : Tick(r)
  \/ Elapse

Spec == Init /\ [][Next]_vars

\* A match under way: socket 1 created room 1 and socket 2 joined it, which
\* started the tick loop.
InitMatch ==
  /\ sockets = [s \in Sockets |-> IF s \in {1, 2} THEN "connected" ELSE "new"]
  /\ \E rx \in RandomDraws, ry \in RandomDraws :
       rooms = setRoom(EmptyRegistry, 1,
                       [NewGameRoom(generateFood(rx, ry), 0) EXCEPT
                          !.players = <<1, 2>>, !.gameLoop = TRUE])
  /\ nextId = 2
  /\ channels = [r \in RoomIds |-> IF r = 1 THEN {1, 2} ELSE {}]
  /\ clock = 0
  /\ emitted = <<[event |-> "roomJoined", room |-> 1, to |-> {1, 2}]>>
  /\ dirReqs = 0
  /\ moved = [r \in RoomIds |-> NoMoves]

\* A match that a player may leave: steering with any payload, a few steps,
\* and disconnects.
NextLeave ==
  \/ \E s \in Sockets : SteerReq(s)
  \/ \E s \in Sockets : Disconnect(s)
  \/ \E r \in RoomIds : Tick(r)
  \/ ElapseSteer

SpecLeave == InitMatch /\ [][NextLeave]_vars

\* Steering: any payload, time in fine grain, a few steps.
NextSteer ==
  \/ \E s \in Sockets : SteerReq(s)
  \/ \E r \in RoomIds : Tick(r)
  \/ ElapseSteer

SpecSteer == InitMatch /\ [][NextSteer]_vars

\* A long match: unit directions, one step gap at a time.
NextMatch ==
  \/ \E s \in Sockets : MatchReq(s)
  \/ \E r \in RoomIds : Tick(r)
  \/ ElapseMatch

SpecMatch == InitMatch /\ [][NextMatch]_vars

\* ---------------------------------------------------------------- claims
\* The socket is listed among the room's occupants.
Occupies(s, room) == \E i \in 1 .. Len(room.players) : room.players[i] = s

\* C1: a joinRoom request for an id absent from the registry, or for a room
\* that already has 2 occupants, is answered with one error to the requester
\* and leaves the registry (occupants, timers, Match States), the channels
\* and everything else as they were.
C1_RefusedJoinChangesNothing ==
  [][\A s \in Sockets, roomId \in RoomIds :
       (/\ JoinRoom(s, roomId)
        /\ \/ roomId \notin DOMAIN rooms
           \/ Len(rooms[roomId].players) = 2)
       => /\ rooms' = rooms
          /\ UNCHANGED <<sockets, nextId, channels, clock, dirReqs, moved>>
          /\ Len(emitted') = 1
          /\ emitted'[1].event = "error"
          /\ emitted'[1].to = {s}]_vars

\* C1 witness: a join has just been refused by a room with 2 occupants.
C1_Witness ==
  /\ Len(emitted) = 1
  /\ emitted[1].event = "error"
  /\ emitted[1].message = "room is full"
  /\ \E r \in DOMAIN rooms : Len(rooms[r].players) = 2

\* C2: every room in the registry has 1 or 2 occupants.
C2_OneOrTwoOccupants ==
  \A r \in DOMAIN rooms : Len(rooms[r].players) \in {1, 2}

\* C2 witness: room 1 was created and, its last occupant gone, removed,
\* while another room is full.
C2_Witness ==
  /\ nextId > 1
  /\ 1 \notin DOMAIN rooms
  /\ \E r \in DOMAIN rooms : Len(rooms[r].players) = 2

\* C3 as stated: right after createRoom the new room has no occupant.
C3_CreatedRoomIsEmpty ==
  (Len(emitted) = 1 /\ emitted[1].event = "roomCreated")
    => Len(rooms[emitted[1].roomId].players) = 0

\* C3 amended: right after createRoom the new room lists the creator as its
\* only occupant and no tick loop runs.
C3_CreatedRoomListsCreator ==
  (Len(emitted) = 1 /\ emitted[1].event = "roomCreated")
    => /\ \E s \in Sockets :
            /\ emitted[1].to = {s}
            /\ rooms[emitted[1].roomId].players = <<s>>
       /\ ~rooms[emitted[1].roomId].gameLoop

\* C3 witness: a room has just been created.
C3_Witness ==
  /\ Len(emitted) = 1
  /\ emitted[1].event = "roomCreated"
  /\ emitted[1].roomId \in DOMAIN rooms

\* C4: a room's tick loop is running exactly when the room has 2 occupants.
C4_LoopIffTwoOccupants ==
  \A r \in DOMAIN rooms : rooms[r].gameLoop <=> Len(rooms[r].players) = 2

\* C4 witness: one room runs its loop with 2 occupants while another, one
\* of whose occupants has left, is down to 1 occupant with no loop.
C4_Witness ==
  \E r, q \in DOMAIN rooms :
    /\ rooms[r].gameLoop /\ Len(rooms[r].players) = 2
    /\ ~rooms[q].gameLoop /\ Len(rooms[q].players) = 1
    /\ \E s \in Sockets : sockets[s] = "disconnected"

\* C5: once a connection's disconnect has been handled, no room of the
\* registry lists it as an occupant.
C5_DisconnectedListedNowhere ==
  \A s \in Sockets :
    sockets[s] = "disconnected"
      => \A r \in DOMAIN rooms : ~Occupies(s, rooms[r])

\* The direction of the snake the occupant steers: slot 0 steers snake1,
\* slot 1 steers snake2.
DirectionOf(room, s) ==
  IF room.players[1] = s
    THEN room.gameState.snake1.direction
    ELSE room.gameState.snake2.direction

Opposite(d) == [x |-> -d.x, y |-> -d.y]

\* C6: for a current direction D and a requested direction R among the four
\* unit directions, the request leaves D in place when R = D or R = -D and
\* makes the direction R when R is perpendicular to D.
C6_ReverseRejection ==
  [][\A s \in Sockets, r \in RoomIds, R \in UnitDirections :
       (/\ dirReqs' = dirReqs + 1
        /\ r \in DOMAIN rooms
        /\ roomsListing(rooms, s) = {r}
        /\ DirectionOf(rooms[r], s) \in UnitDirections
        /\ DirectionFrom(s, {R}, MaxSteerReqs))
       => LET D == DirectionOf(rooms[r], s)
          IN DirectionOf(rooms'[r], s) =
               IF R = D \/ R = Opposite(D) THEN D ELSE R]_vars

\* C6 witness: both snakes have turned onto the vertical axis, the second
\* request having been handled after the first was accepted.
C6_Witness ==
  /\ dirReqs = 2
  /\ \E r \in DOMAIN rooms :
       /\ rooms[r].gameState.snake1.direction = Direction.UP
       /\ rooms[r].gameState.snake2.direction = Direction.DOWN

\* The Match State resetGame leaves behind, whatever the food.
Reinitialized(gameState) ==
  /\ gameState.snake1.positions =
       <<[x |-> CANVAS_WIDTH \div 4, y |-> CANVAS_HEIGHT \div 2]>>
  /\ gameState.snake2.positions =
       <<[x |-> (3 * CANVAS_WIDTH) \div 4, y |-> CANVAS_HEIGHT \div 2]>>
  /\ gameState.snake1.direction = Direction.RIGHT
  /\ gameState.snake2.direction = Direction.LEFT
  /\ gameState.snake1.score = 0
  /\ gameState.snake2.score = 0
  /\ gameState.food.position.x \in 0 .. (CANVAS_WIDTH - 1)
  /\ gameState.food.position.y \in 0 .. (CANVAS_HEIGHT - 1)

\* C7: a tick at a time less than 1000 / 15 ms after lastUpdate leaves the
\* Match State as it was; any other tick sets lastUpdate to the time of the
\* tick and either moves both heads or ends in the reset.
C7_RateLimit ==
  [][\A r \in RoomIds :
       Tick(r)
       => LET before == rooms[r].gameState
              after == rooms'[r].gameState
          IN IF (clock - before.lastUpdate) * GAME_SPEED < 1000
               THEN after = before
               ELSE /\ after.lastUpdate = clock
                    /\ \/ Reinitialized(after)
                       \/ /\ after.snake1.positions[1] = newHead(before.snake1)
                          /\ after.snake2.positions[1] = newHead(before.snake2)
                          /\ after.snake1.direction = before.snake1.direction
                          /\ after.snake2.direction = before.snake2.direction]_vars

\* C7 witness: a step was advanced, 66 ms later a tick fired and was rate
\* limited.
C7_Witness ==
  /\ Len(emitted) = 1
  /\ emitted[1].event = "gameState"
  /\ LET gs == rooms[emitted[1].room].gameState
     IN /\ gs.lastUpdate > 0
        /\ clock - gs.lastUpdate = StepGap - 1
        /\ gs.snake1.positions # <<[x |-> CANVAS_WIDTH \div 4,
                                     y |-> CANVAS_HEIGHT \div 2]>>

\* One step of a head on the torus: each coordinate wraps into its axis.
StepHead(snake) ==
  [x |-> (snake.positions[1].x + snake.direction.x * BLOCK_SIZE) % CANVAS_WIDTH,
   y |-> (snake.positions[1].y + snake.direction.y * BLOCK_SIZE) % CANVAS_HEIGHT]

\* The snake's new head lands on the food.
LandsOnFood(snake, food) == StepHead(snake) = food.position

\* The body after one step: the new head in front, the tail dropped unless
\* the head landed on the food.
StepBody(snake, food) ==
  IF LandsOnFood(snake, food)
    THEN <<StepHead(snake)>> \o snake.positions
    ELSE <<StepHead(snake)>> \o SubSeq(snake.positions, 1,
                                       Len(snake.positions) - 1)

\* Termination of section 4.4 on the moved bodies.
SelfHit(body) == \E i \in 2 .. Len(body) : body[i] = body[1]

HeadOn(body, other) == \E i \in 1 .. Len(other) : other[i] = body[1]

Termination(gameState) ==
  LET body1 == StepBody(gameState.snake1, gameState.food)
      body2 == StepBody(gameState.snake2, gameState.food)
  IN \/ SelfHit(body1)
     \/ SelfHit(body2)
     \/ HeadOn(body1, body2)
     \/ HeadOn(body2, body1)

\* Room r takes an advanced step: its lastUpdate changes.
Advances(r) ==
  /\ r \in DOMAIN rooms
  /\ r \in DOMAIN rooms'
  /\ rooms'[r].gameState.lastUpdate # rooms[r].gameState.lastUpdate

\* C8: on an advanced step that does not end in the collision reset, each
\* body is one longer if its new head landed on the food and as long as
\* before if it did not.
C8_LengthInvariant ==
  [][\A r \in RoomIds :
       (Advances(r) /\ ~Termination(rooms[r].gameState))
       => LET before == rooms[r].gameState
              after == rooms'[r].gameState
          IN /\ Len(after.snake1.positions) =
                  Len(before.snake1.positions) +
                    (IF LandsOnFood(before.snake1, before.food) THEN 1 ELSE 0)
             /\ Len(after.snake2.positions) =
                  Len(before.snake2.positions) +
                    (IF LandsOnFood(before.snake2, before.food) THEN 1 ELSE 0)]_vars

\* C8 witness: snake1 has eaten and kept moving: length 2, score 1, and the
\* other snake still at length 1.
C8_Witness ==
  \E r \in DOMAIN rooms :
    /\ Len(rooms[r].gameState.snake1.positions) = 2
    /\ rooms[r].gameState.snake1.score = 1
    /\ Len(rooms[r].gameState.snake2.positions) = 1

\* C9: when both directions are unit directions, every body cell and the
\* food lie on the grid: 0 <= x < W, 0 <= y < H, multiples of the block.
OnGrid(cell) ==
  /\ cell.x \in 0 .. (CANVAS_WIDTH - 1)
  /\ cell.y \in 0 .. (CANVAS_HEIGHT - 1)
  /\ cell.x % BLOCK_SIZE = 0
  /\ cell.y % BLOCK_SIZE = 0

AllCellsOnGrid(gameState) ==
  /\ \A i \in 1 .. Len(gameState.snake1.positions) :
       OnGrid(gameState.snake1.positions[i])
  /\ \A i \in 1 .. Len(gameState.snake2.positions) :
       OnGrid(gameState.snake2.positions[i])
  /\ OnGrid(gameState.food.position)

C9_CellsOnGrid ==
  \A r \in DOMAIN rooms :
    (/\ rooms[r].gameState.snake1.direction \in UnitDirections
     /\ rooms[r].gameState.snake2.direction \in UnitDirections)
    => AllCellsOnGrid(rooms[r].gameState)

C11_DisconnectKeepsMatchState ==
  [][\A s \in Sockets :
       ( /\ sockets[s] = "connected"
         /\ sockets'[s] = "disconnected"
         /\ Disconnect(s) )
       => \A r \in DOMAIN rooms \cap DOMAIN rooms' :
            rooms'[r].gameState = rooms[r].gameState]_vars

\* A room whose match was stopped by a leave after a step had been
\* advanced: one occupant, no loop, and snake A away from its spawn.
C11_Witness ==
  \E r \in DOMAIN rooms :
    /\ Len(rooms[r].players) = 1
    /\ ~rooms[r].gameLoop
    /\ \E s \in Sockets : sockets[s] = "disconnected"
    /\ rooms[r].gameState.snake1.positions[1] #
         [x |-> CANVAS_WIDTH \div 4, y |-> CANVAS_HEIGHT \div 2]

\* ---------------------------------------------------------------------
\* The rule of the direction validation: the request shares the zero axis
\* of the current direction, or is its exact negation.
Rejected(d, currentDir) ==
  \/ (d.x = 0 /\ currentDir.x = 0)
  \/ (d.y = 0 /\ currentDir.y = 0)
  \/ d = Opposite(currentDir)

\* The registry after the snake of s's slot in room r has been given
\* direction d, and nothing else.
OwnSnakeTurned(r, s, d) ==
  IF rooms[r].players[1] = s
    THEN [rooms EXCEPT ![r].gameState.snake1.direction = d]
    ELSE [rooms EXCEPT ![r].gameState.snake2.direction = d]

\* C12: a direction request changes at most the direction field of one
\* snake. A request from a connection that occupies no room, or one the
\* validation rejects, leaves rooms, channels and connections as they were;
\* an accepted one replaces the direction of the snake of the requester's
\* slot and leaves every body, score, food, lastUpdate, occupant list, loop
\* handle and the other snake alone.
C12_DirectionFrame ==
  [][\A s \in Sockets, d \in DirectionPayloads :
       ( /\ dirReqs' = dirReqs + 1
         /\ DirectionFrom(s, {d}, MaxDirReqs) )
       => /\ UNCHANGED <<sockets, nextId, channels, clock>>
          /\ roomsListing(rooms, s) = {} => rooms' = rooms
          /\ \A r \in DOMAIN rooms :
               ( /\ roomsListing(rooms, s) = {r}
                 /\ Rejected(d, DirectionOf(rooms[r], s)) )
               => rooms' = rooms
          /\ \/ rooms' = rooms
             \/ \E r \in DOMAIN rooms :
                  /\ Occupies(s, rooms[r])
                  /\ rooms' = OwnSnakeTurned(r, s, d)]_vars

\* C12 witness: the one request so far was accepted, snake B of a running
\* room has been turned off its spawn direction and snake A has not.
C12_Witness ==
  /\ dirReqs = 1
  /\ \E r \in DOMAIN rooms :
       /\ rooms[r].gameLoop
       /\ rooms[r].gameState.snake2.direction = Direction.DOWN
       /\ rooms[r].gameState.snake1.direction = Direction.RIGHT

\* ---------------------------------------------------------------------
\* The last handler published a gameState snapshot for room r.
Published(r, msgs) ==
  \E i \in 1 .. Len(msgs) : msgs[i].event = "gameState" /\ msgs[i].room = r

\* What a simulation step may change: bodies, scores, food and lastUpdate.
Simulated(gameState) ==
  <<gameState.snake1.positions, gameState.snake1.score,
    gameState.snake2.positions, gameState.snake2.score,
    gameState.food, gameState.lastUpdate>>

\* C13: gameState snapshots are published only by the room's running tick
\* loop. Every loop iteration publishes exactly one snapshot, of the state
\* after its step, to the room's channel, whether or not the step advanced;
\* a step that publishes a snapshot for a room found that room's loop
\* running with two occupants listed; and while a room's loop is stopped
\* its bodies, scores, food and lastUpdate do not change.
C13_SnapshotsOnlyFromRunningLoop ==
  [][/\ \A r \in RoomIds :
          Tick(r) =>
            emitted' = <<[event |-> "gameState", room |-> r,
                          to |-> channels[r],
                          gameState |-> rooms'[r].gameState]>>
     /\ \A r \in RoomIds :
          Published(r, emitted') =>
            /\ r \in DOMAIN rooms
            /\ rooms[r].gameLoop
            /\ Len(rooms[r].players) = 2
            /\ Len(emitted') = 1
     /\ \A r \in DOMAIN rooms \cap DOMAIN rooms' :
          ~rooms[r].gameLoop =>
            Simulated(rooms'[r].gameState) = Simulated(rooms[r].gameState)
    ]_vars

\* C13 witness: an iteration whose step did not advance (no time has
\* passed since the room was made) has still published its snapshot.
C13_Witness ==
  /\ clock = 0
  /\ Len(emitted) = 1
  /\ emitted[1].event = "gameState"
  /\ emitted[1].gameState = rooms[emitted[1].room].gameState
  /\ emitted[1].gameState.lastUpdate = 0

\* A room stopped by a leave after an advanced step, with nothing
\* published by the leave.
C13_StoppedWitness ==
  /\ emitted = <<>>
  /\ \E r \in DOMAIN rooms :
       /\ ~rooms[r].gameLoop
       /\ Len(rooms[r].players) = 1
       /\ rooms[r].gameState.lastUpdate > 0

\* ---------------------------------------------------------------------
\* C14: for two consecutive advanced steps of a snake with no reset
\* between them, the direction moved in on the second step is never the
\* exact opposite of the direction moved in on the first, however many
\* direction requests arrive between the two steps.
C14_NoReversalBetweenSteps ==
  [][\A r \in DOMAIN rooms \cap DOMAIN rooms' :
       ( /\ Advances(r)
         /\ moved[r] # NoMoves )
       => /\ rooms[r].gameState.snake1.direction #
               Opposite(moved[r].snake1)
          /\ rooms[r].gameState.snake2.direction #
               Opposite(moved[r].snake2)]_vars

\* ---------------------------------------------------------------------
\* C15: within one advanced step that does not end in a reset, if snake A
\* eats the food then snake B's eating check is made against the
\* replacement food: B scores and grows exactly if its new head is on the
\* replacement's cell. After such a step B has either scored, or its head
\* is not on the food now on the field (the replacement); and B has not
\* scored for landing on the food A ate.
C15_SecondCheckSeesReplacement ==
  [][\A r \in DOMAIN rooms \cap DOMAIN rooms' :
       LET gs == rooms[r].gameState
           after == rooms'[r].gameState
       IN ( /\ Advances(r)
            /\ LandsOnFood(gs.snake1, gs.food)
            /\ ~Termination(gs) )
          => /\ after.snake2.score = gs.snake2.score
                  => after.snake2.positions[1] # after.food.position
             /\ after.snake2.score # gs.snake2.score
                  => ~LandsOnFood(gs.snake2, gs.food)]_vars

\* ---------------------------------------------------------------------
\* C16: slot assignment is stable. In the match InitMatch sets up socket 2
\* is the second occupant (slot 1) of room 1 and never leaves and rejoins;
\* for as long as it occupies the room its direction requests steer snake B
\* and never change the direction of snake A, also after the first occupant
\* has disconnected.
C16_SecondOccupantSteersSnakeB ==
  [][\A d \in DirectionPayloads :
       ( /\ dirReqs' = dirReqs + 1
         /\ 1 \in DOMAIN rooms
         /\ Occupies(2, rooms[1])
         /\ DirectionFrom(2, {d}, MaxSteerReqs) )
       => rooms'[1].gameState.snake1.direction =
            rooms[1].gameState.snake1.direction]_vars

\* ---------------------------------------------------------------------
\* C17: in every reachable state each snake's direction is one of the four
\* unit deltas Up, Down, Left, Right, whatever integer pairs the direction
\* requests carry.
C17_DirectionsAreUnit ==
  \A r \in DOMAIN rooms :
    /\ rooms[r].gameState.snake1.direction \in UnitDirections
    /\ rooms[r].gameState.snake2.direction \in UnitDirections

\* ---------------------------------------------------------------------
\* C18: the occupants listed in a room are pairwise distinct and a
\* connection occupies at most one room at a time, so a tick loop runs only
\* in a room that two different connections occupy.
C18_DistinctOccupantsOneRoom ==
  /\ \A r \in DOMAIN rooms :
       \A i, j \in 1 .. Len(rooms[r].players) :
         i # j => rooms[r].players[i] # rooms[r].players[j]
  /\ \A s \in Sockets : Cardinality(roomsListing(rooms, s)) <= 1
  /\ \A r \in DOMAIN rooms :
       rooms[r].gameLoop =>
         \E s, t \in Sockets :
           s # t /\ Occupies(s, rooms[r]) /\ Occupies(t, rooms[r])

\* C18, last part alone: no tick loop runs in a room that lists a single
\* connection.
C18_NoSimulationAlone ==
  \A r \in DOMAIN rooms :
    rooms[r].gameLoop =>
      \E s, t \in Sockets :
        s # t /\ Occupies(s, rooms[r]) /\ Occupies(t, rooms[r])

\* ---------------------------------------------------------------------
\* C19: in every reachable state, for each snake, body length equals
\* score + 1.
C19_LengthIsScorePlusOne ==
  \A r \in DOMAIN rooms :
    /\ Len(rooms[r].gameState.snake1.positions) =
         rooms[r].gameState.snake1.score + 1
    /\ Len(rooms[r].gameState.snake2.positions) =
         rooms[r].gameState.snake2.score + 1

\* C19 witness: snake B has eaten once and is two cells long.
C19_Witness ==
  \E r \in DOMAIN rooms :
    /\ rooms[r].gameState.snake2.score = 1
    /\ Len(rooms[r].gameState.snake2.positions) = 2

\* ---------------------------------------------------------------------
\* The two heads change places in the step from gameState: each snake's
\* new head is the other's previous head cell.
HeadsSwap(gameState) ==
  /\ StepHead(gameState.snake1) = gameState.snake2.positions[1]
  /\ StepHead(gameState.snake2) = gameState.snake1.positions[1]

\* C20: with unit directions, there is no advanced step in which snake A's
\* new head is snake B's previous head cell and snake B's new head is
\* snake A's previous head cell without that step ending in a reset.
C20_NoUndetectedPassThrough ==
  [][\A r \in DOMAIN rooms \cap DOMAIN rooms' :
       ( /\ Advances(r)
         /\ HeadsSwap(rooms[r].gameState) )
       => Reinitialized(rooms'[r].gameState)]_vars

\* C20 witness: the heads face each other on one row with a single cell
\* between them, the closest two approaching heads come before they meet.
C20_Witness ==
  \E r \in DOMAIN rooms :
    LET gs == rooms[r].gameState
    IN /\ rooms[r].gameLoop
       /\ gs.snake1.direction = Direction.RIGHT
       /\ gs.snake2.direction = Direction.LEFT
       /\ gs.snake1.positions[1].y = gs.snake2.positions[1].y
       /\ gs.snake2.positions[1].x =
            gs.snake1.positions[1].x + 2 * BLOCK_SIZE

====
